---- MODULE Spec2Model ----
(***************************************************************************)
(* The manifest of dbt/contracts/graph/manifest.py: the node, macro and    *)
(* doc mappings, edge derivation (build_edges / serialize), doc and        *)
(* materialization-macro lookup, node registration (add_nodes) and patch   *)
(* merging (patch_nodes).                                                  *)
(*                                                                         *)
(* A Python dict is modelled as the sequence of its [key, value] entries   *)
(* in insertion order (the iteration order of dict on Python 3.7+).        *)
(* A Python str that the code splits is a sequence of one-character        *)
(* strings; other strings are TLA+ strings.                                *)
(***************************************************************************)
EXTENDS Integers, Sequences, FiniteSets, TLC

VARIABLES
    nodes,      \* self.nodes  : dict unique_id -> node
    macros,     \* self.macros : dict unique_id -> macro
    docs,       \* self.docs   : dict unique_id -> doc
    op,         \* the last call made on the manifest: [name, args]
    ret,        \* what that call returned or raised: [exc, value]
    patches,    \* the caller's patch dict as patch_nodes left it
    logged,     \* what that call wrote to logger.debug
    lookups     \* the names that call passed to find_macro_by_name, in order

vars == <<nodes, macros, docs, op, ret, patches, logged, lookups>>

----------------------------------------------------------------------------
(* Bounds of the model.                                                    *)

MaxDeps == 2        \* longest depends_on list of a node handed to build_edges
MaxNew == 2         \* most entries of a new_nodes dict
MaxPatches == 2     \* most entries of a patches dict
MaxDocs == 3        \* most entries of self.docs
MaxMacros == 3      \* most entries of self.macros

----------------------------------------------------------------------------
(* Python values.                                                          *)

None == "None"

\* None where a str that the code splits (or compares with a part) is expected
NoneStr == <<None>>

\* an exception is its type and its args tuple; NoExc: nothing was raised
NoExc == [type |-> "None", args |-> <<>>]

Raise(type, args) == [type |-> type, args |-> args]

\* a call's outcome: the exception it raised, else the returned value as a
\* one-element tuple, <<>> for a returned None
Returned(v) == [exc |-> NoExc, value |-> <<v>>]

ReturnedNone == [exc |-> NoExc, value |-> <<>>]

Raised(exc) == [exc |-> exc, value |-> <<>>]

Range(s) == {s[i] : i \in DOMAIN s}

SeqsUpTo(S, n) == UNION {[1..k -> S] : k \in 0..n}

Distinct(s) == \A i, j \in DOMAIN s : i # j => s[i] # s[j]

(* dict: sequence of entries [key, value], keys distinct.                  *)

Entry(k, v) == [key |-> k, value |-> v]

DictKeys(d) == {d[i].key : i \in DOMAIN d}

DictKeySeq(d) == [i \in DOMAIN d |-> d[i].key]

DictValues(d) == [i \in DOMAIN d |-> d[i].value]

DictHas(d, k) == \E i \in DOMAIN d : d[i].key = k

DictIndex(d, k) == CHOOSE i \in DOMAIN d : d[i].key = k

DictGet(d, k) == d[DictIndex(d, k)].value

\* d[k] = v
DictSet(d, k, v) ==
    IF DictHas(d, k)
    THEN [d EXCEPT ![DictIndex(d, k)] = Entry(k, v)]
    ELSE Append(d, Entry(k, v))

\* variant of DictPopRest: the entry is read, not removed (d.get for d.pop)
DictPopRest_keep(d, k) == d

\* d.pop(k, default): the value popped, and the dict that is left
DictPopValue(d, k, default) == IF DictHas(d, k) THEN DictGet(d, k) ELSE default

DictPopRest(d, k) == SelectSeq(d, LAMBDA e : e.key # k)

----------------------------------------------------------------------------
(* Nodes.  unique_id is resource_type.package.name; a node is stored under *)
(* its own unique_id.                                                      *)

NodeIds == {"model.p.a", "model.q.a", "test.p.c"}

NodeModel == "model"

ResourceTypeOf(uid) == IF uid = "test.p.c" THEN "test" ELSE NodeModel

PackageOf(uid) == IF uid = "model.q.a" THEN "q" ELSE "p"

NameOf(uid) == IF uid = "test.p.c" THEN "c" ELSE "a"

ParsedNode(uid, deps) ==
    [unique_id |-> uid,
     resource_type |-> ResourceTypeOf(uid),
     package_name |-> PackageOf(uid),
     name |-> NameOf(uid),
     depends_on_nodes |-> deps,
     description |-> ""]

\* every depends_on list of at most MaxDeps distinct keys (edge derivation)
DepLists == {s \in SeqsUpTo(NodeIds, MaxDeps) : Distinct(s)}

\* the node dicts a manifest is constructed with, for edge derivation
NodeDicts ==
    {[i \in DOMAIN ks |-> Entry(ks[i], ParsedNode(ks[i], ds[i]))] :
        <<ks, ds>> \in {p \in SeqsUpTo(NodeIds, Cardinality(NodeIds))
                                \X SeqsUpTo(DepLists, Cardinality(NodeIds)) :
                          Distinct(p[1]) /\ Len(p[1]) = Len(p[2])}}

\* the nodes the parser hands to add_nodes: two parses of every unique_id
ParserOutput ==
    {ParsedNode("model.p.a", <<>>),
     ParsedNode("model.p.a", <<"test.p.c">>),
     ParsedNode("model.q.a", <<"model.p.a">>),
     ParsedNode("model.q.a", <<"model.p.a", "test.p.c">>),
     ParsedNode("test.p.c", <<>>),
     ParsedNode("test.p.c", <<"model.q.a">>)}

NewNodesDicts ==
    {[i \in DOMAIN ns |-> Entry(ns[i].unique_id, ns[i])] :
        ns \in {s \in SeqsUpTo(ParserOutput, MaxNew) :
                    Distinct([i \in DOMAIN s |-> s[i].unique_id])}}

\* patch payloads, keyed by the name of the model they document
PatchNames == {"a", "b", "c"}

PatchDescriptions == {"d1", "d2"}

NodePatch(nm, descr) == [name |-> nm, description |-> descr]

PatchDicts ==
    {[i \in DOMAIN ps |-> Entry(ps[i].name, ps[i])] :
        ps \in {s \in SeqsUpTo({NodePatch(n, d) : n \in PatchNames,
                                                  d \in PatchDescriptions},
                               MaxPatches) :
                    Distinct([i \in DOMAIN s |-> s[i].name])}}

\* every dependency key of every node is a key of the node dict
RefComplete(d) ==
    \A i \in DOMAIN d : Range(d[i].value.depends_on_nodes) \subseteq DictKeys(d)

----------------------------------------------------------------------------
(* build_edges                                                             *)

\* variant of append_dependent: the edge is recorded on the dependent's own
\* entry (forward_edges[node.unique_id].append(unique_id))
RECURSIVE append_dependent_reversed(_, _, _)
append_dependent_reversed(forward_edges, node, j) ==
    IF j > Len(node.depends_on_nodes)
    THEN [exc |-> NoExc, forward |-> forward_edges]
    ELSE LET unique_id == node.depends_on_nodes[j] IN
         IF ~DictHas(forward_edges, unique_id)
         THEN [exc |-> Raise("KeyError", <<unique_id>>),
               forward |-> forward_edges]
         ELSE append_dependent_reversed(
                  DictSet(forward_edges, node.unique_id,
                          Append(DictGet(forward_edges, node.unique_id),
                                 unique_id)),
                  node, j + 1)

\* variant of append_dependent: a missing key gets an entry
\* (forward_edges.setdefault(unique_id, []).append(node.unique_id))
RECURSIVE append_dependent_setdefault(_, _, _)
append_dependent_setdefault(forward_edges, node, j) ==
    IF j > Len(node.depends_on_nodes)
    THEN [exc |-> NoExc, forward |-> forward_edges]
    ELSE LET unique_id == node.depends_on_nodes[j]
             old == IF DictHas(forward_edges, unique_id)
                    THEN DictGet(forward_edges, unique_id)
                    ELSE <<>>
         IN  append_dependent_setdefault(
                 DictSet(forward_edges, unique_id,
                         Append(old, node.unique_id)),
                 node, j + 1)

\* for unique_id in node.depends_on_nodes:
\*     forward_edges[unique_id].append(node.unique_id)
RECURSIVE append_dependent(_, _, _)
append_dependent(forward_edges, node, j) ==
    IF j > Len(node.depends_on_nodes)
    THEN [exc |-> NoExc, forward |-> forward_edges]
    ELSE LET unique_id == node.depends_on_nodes[j] IN
         IF ~DictHas(forward_edges, unique_id)
         THEN [exc |-> Raise("KeyError", <<unique_id>>),
               forward |-> forward_edges]
         ELSE append_dependent(
                  DictSet(forward_edges, unique_id,
                          Append(DictGet(forward_edges, unique_id),
                                 node.unique_id)),
                  node, j + 1)

\* for node in nodes: ...
RECURSIVE build_edges_loop(_, _, _, _)
build_edges_loop(node_values, i, forward_edges, backward_edges) ==
    IF i > Len(node_values)
    THEN Returned([forward |-> forward_edges, backward |-> backward_edges])
    ELSE LET node == node_values[i]
             bwd == DictSet(backward_edges, node.unique_id,
                            node.depends_on_nodes)
             fwd == append_dependent(forward_edges, node, 1)
         IN  IF fwd.exc # NoExc
             THEN Raised(fwd.exc)
             ELSE build_edges_loop(node_values, i + 1, fwd.forward, bwd)

\* variant of prepopulate: only the nodes some node depends on get an entry
prepopulate_depended_only(node_values, i, forward_edges) ==
    SelectSeq([j \in DOMAIN node_values |->
                  Entry(node_values[j].unique_id, <<>>)],
              LAMBDA e : \E j \in DOMAIN node_values :
                             e.key \in Range(node_values[j].depends_on_nodes))

\* forward_edges = {node.unique_id: [] for node in nodes}
RECURSIVE prepopulate(_, _, _)
prepopulate(node_values, i, forward_edges) ==
    IF i > Len(node_values)
    THEN forward_edges
    ELSE prepopulate(node_values, i + 1,
                     DictSet(forward_edges, node_values[i].unique_id, <<>>))

build_edges(node_values) ==
    build_edges_loop(node_values, 1, prepopulate(node_values, 1, <<>>), <<>>)

----------------------------------------------------------------------------
(* Manifest.serialize: the edge maps of the returned dict.  The 'nodes',   *)
(* 'macros' and 'docs' entries are produced by the entities' own           *)
(* serialize() and are not part of this model.                             *)

serialize_result(self_nodes) ==
    LET edges == build_edges(DictValues(self_nodes)) IN
    IF edges.exc # NoExc
    THEN Raised(edges.exc)
    ELSE Returned([parent_map |-> edges.value[1].backward,
                   child_map |-> edges.value[1].forward])

serialize ==
    /\ op' = [name |-> "serialize", args |-> <<>>]
    /\ ret' = serialize_result(nodes)
    /\ patches' = <<>>
    /\ logged' = <<>>
    /\ lookups' = <<>>
    /\ UNCHANGED <<nodes, macros, docs>>

----------------------------------------------------------------------------
(* Manifest.add_nodes.  raise_duplicate_resource_name is neither defined   *)
(* nor imported in the module (lines 1-9), so reaching line 225 raises     *)
(* NameError before either node is looked at.                              *)

\* variant of add_nodes_loop: every key is checked before any is inserted
add_nodes_loop_atomic(self_nodes, new_nodes, i) ==
    IF \E j \in DOMAIN new_nodes : DictHas(self_nodes, new_nodes[j].key)
    THEN [exc |-> Raise("NameError", <<"raise_duplicate_resource_name">>),
          nodes |-> self_nodes]
    ELSE [exc |-> NoExc, nodes |-> self_nodes \o new_nodes]

RECURSIVE add_nodes_loop(_, _, _)
add_nodes_loop(self_nodes, new_nodes, i) ==
    IF i > Len(new_nodes)
    THEN [exc |-> NoExc, nodes |-> self_nodes]
    ELSE LET unique_id == new_nodes[i].key
             node == new_nodes[i].value
         IN  IF DictHas(self_nodes, unique_id)
             THEN [exc |-> Raise("NameError",
                                 <<"raise_duplicate_resource_name">>),
                   nodes |-> self_nodes]
             ELSE add_nodes_loop(DictSet(self_nodes, unique_id, node),
                                 new_nodes, i + 1)

add_nodes(new_nodes) ==
    LET r == add_nodes_loop(nodes, new_nodes, 1) IN
    /\ op' = [name |-> "add_nodes", args |-> <<new_nodes>>]
    /\ nodes' = r.nodes
    /\ ret' = IF r.exc # NoExc THEN Raised(r.exc) ELSE ReturnedNone
    /\ patches' = <<>>
    /\ logged' = <<>>
    /\ lookups' = <<>>
    /\ UNCHANGED <<macros, docs>>

----------------------------------------------------------------------------
(* Manifest.patch_nodes                                                    *)

\* ParsedNode.patch(patch): the node takes the patch's descriptive metadata
node_patch(node, patch) == [node EXCEPT !.description = patch.description]

\* None where a patch is expected
NoPatch == [name |-> None, description |-> None]

\* "if not patch": a patch payload is an object with its required fields
Truthy(patch) == patch # NoPatch

\* variant of patch_nodes_scan: the resource type is not looked at
RECURSIVE patch_nodes_scan_any_type(_, _, _)
patch_nodes_scan_any_type(self_nodes, pts, i) ==
    IF i > Len(self_nodes)
    THEN [nodes |-> self_nodes, patches |-> pts]
    ELSE LET node == self_nodes[i].value
             patch == DictPopValue(pts, node.name, NoPatch)
             rest == DictPopRest(pts, node.name)
         IN  IF ~Truthy(patch)
             THEN patch_nodes_scan_any_type(self_nodes, rest, i + 1)
             ELSE patch_nodes_scan_any_type(
                      [self_nodes EXCEPT
                          ![i] = Entry(self_nodes[i].key,
                                       node_patch(node, patch))],
                      rest, i + 1)

RECURSIVE patch_nodes_scan(_, _, _)
patch_nodes_scan(self_nodes, pts, i) ==
    IF i > Len(self_nodes)
    THEN [nodes |-> self_nodes, patches |-> pts]
    ELSE LET node == self_nodes[i].value IN
         IF node.resource_type # NodeModel
         THEN patch_nodes_scan(self_nodes, pts, i + 1)
         ELSE LET patch == DictPopValue(pts, node.name, NoPatch)
                  rest == DictPopRest(pts, node.name)
              IN  IF ~Truthy(patch)
                  THEN patch_nodes_scan(self_nodes, rest, i + 1)
                  ELSE patch_nodes_scan(
                           [self_nodes EXCEPT
                               ![i] = Entry(self_nodes[i].key,
                                            node_patch(node, patch))],
                           rest, i + 1)

\* logger.debug(...format(patch.name)) for patch in patches.values()
patch_nodes_warnings(pts) == [i \in DOMAIN pts |-> pts[i].value.name]

patch_nodes(pts) ==
    LET r == patch_nodes_scan(nodes, pts, 1) IN
    /\ op' = [name |-> "patch_nodes", args |-> <<pts>>]
    /\ nodes' = r.nodes
    /\ patches' = r.patches
    /\ logged' = patch_nodes_warnings(r.patches)
    /\ ret' = ReturnedNone
    /\ lookups' = <<>>
    /\ UNCHANGED <<macros, docs>>

----------------------------------------------------------------------------
(* Manifest.find_docs_by_name                                              *)

\* str.split(sep) for a one-character sep: the parts between the separators,
\* empty parts kept
RECURSIVE str_split(_, _)
str_split(s, sep) ==
    IF \A i \in DOMAIN s : s[i] # sep
    THEN <<s>>
    ELSE LET i == CHOOSE k \in DOMAIN s :
                      s[k] = sep /\ \A j \in 1..(k - 1) : s[j] # sep
         IN  <<SubSeq(s, 1, i - 1)>> \o str_split(SubSeq(s, i + 1, Len(s)), sep)

\* the unique_ids a docs dict is constructed with: "p.o", "q.o", "p.x" are
\* package.name; "o", "p.o.x" and "q..o" are not
DocIds ==
    {<<"p", ".", "o">>, <<"q", ".", "o">>, <<"p", ".", "x">>,
     <<"o">>, <<"p", ".", "o", ".", "x">>, <<"q", ".", ".", "o">>}

ParsedDocumentation(uid) == [unique_id |-> uid]

DocDicts ==
    {[i \in DOMAIN ks |-> Entry(ks[i], ParsedDocumentation(ks[i]))] :
        ks \in {s \in SeqsUpTo(DocIds, MaxDocs) : Distinct(s)}}

DocNames == {<<"o">>, <<"x">>}

DocPackages == {NoneStr, <<"p">>, <<"q">>}

InvalidDocMsg == "documentation names cannot contain '.' characters"

\* variant of find_docs_by_name_scan: a key that does not split in two is
\* passed over
RECURSIVE find_docs_by_name_scan_skip_invalid(_, _, _, _)
find_docs_by_name_scan_skip_invalid(self_docs, name, package, i) ==
    IF i > Len(self_docs)
    THEN ReturnedNone
    ELSE LET parts == str_split(self_docs[i].key, ".") IN
         IF /\ Len(parts) = 2
            /\ name = parts[2]
            /\ package \in {NoneStr, parts[1]}
         THEN Returned(self_docs[i].value)
         ELSE find_docs_by_name_scan_skip_invalid(self_docs, name, package,
                                                  i + 1)

\* variant of find_docs_by_name_scan: the package is not compared
RECURSIVE find_docs_by_name_scan_any_package(_, _, _, _)
find_docs_by_name_scan_any_package(self_docs, name, package, i) ==
    IF i > Len(self_docs)
    THEN ReturnedNone
    ELSE LET parts == str_split(self_docs[i].key, ".") IN
         IF Len(parts) # 2
         THEN Raised(Raise("CompilationException",
                           <<InvalidDocMsg, self_docs[i].value>>))
         ELSE IF name = parts[2]
              THEN Returned(self_docs[i].value)
              ELSE find_docs_by_name_scan_any_package(self_docs, name,
                                                      package, i + 1)

\* for unique_id, doc in self.docs.items(): ...
RECURSIVE find_docs_by_name_scan(_, _, _, _)
find_docs_by_name_scan(self_docs, name, package, i) ==
    IF i > Len(self_docs)
    THEN ReturnedNone
    ELSE LET unique_id == self_docs[i].key
             doc == self_docs[i].value
             parts == str_split(unique_id, ".")
         IN  IF Len(parts) # 2
             THEN Raised(Raise("CompilationException", <<InvalidDocMsg, doc>>))
             ELSE LET found_package == parts[1]
                      found_node == parts[2]
                  IN  IF name = found_node
                         /\ package \in {NoneStr, found_package}
                      THEN Returned(doc)
                      ELSE find_docs_by_name_scan(self_docs, name, package,
                                                  i + 1)

find_docs_by_name(name, package) ==
    /\ op' = [name |-> "find_docs_by_name", args |-> <<name, package>>]
    /\ ret' = find_docs_by_name_scan(docs, name, package, 1)
    /\ patches' = <<>>
    /\ logged' = <<>>
    /\ lookups' = <<>>
    /\ UNCHANGED <<nodes, macros, docs>>

----------------------------------------------------------------------------
(* Manifest.get_materialization_macro                                      *)

NodeMacro == "macro"

NodeOperation == "operation"

\* dbt.utils.get_materialization_macro_name(..., with_prefix=False): the
\* canonical name, here the tuple of the parts it is formatted from; an unset
\* adapter is named as the default adapter
get_materialization_macro_name(materialization_name, adapter_type) ==
    <<"materialization", materialization_name,
      IF adapter_type = None THEN "default" ELSE adapter_type>>

ParsedMacro(rt, pkg, nm) ==
    [unique_id |-> <<rt, pkg, nm>>,
     resource_type |-> rt,
     package_name |-> pkg,
     name |-> nm]

\* the macros a manifest is constructed with
MacroUniverse ==
    {ParsedMacro(NodeMacro, "p", <<"materialization", "table", "snowflake">>),
     ParsedMacro(NodeMacro, "p", <<"materialization", "table", "default">>),
     ParsedMacro(NodeMacro, "q", <<"materialization", "table", "default">>),
     ParsedMacro(NodeOperation, "p",
                 <<"materialization", "table", "snowflake">>),
     ParsedMacro(NodeMacro, "p", <<"materialization", "view", "default">>)}

MacroDicts ==
    {[i \in DOMAIN ms |-> Entry(ms[i].unique_id, ms[i])] :
        ms \in {s \in SeqsUpTo(MacroUniverse, MaxMacros) : Distinct(s)}}

Materializations == {"table", "view"}

AdapterTypes == {None, "default", "snowflake", "postgres"}

\* dbt.utils.find_in_subgraph_by_name: the first entry of the subgraph whose
\* name is target_name, whose resource type is in nodetype and whose package
\* is target_package when one is given
RECURSIVE find_in_subgraph_by_name(_, _, _, _, _)
find_in_subgraph_by_name(subgraph, target_name, target_package, nodetype, i) ==
    IF i > Len(subgraph)
    THEN <<>>
    ELSE LET model == subgraph[i].value IN
         IF /\ model.resource_type \in nodetype
            /\ model.name = target_name
            /\ target_package \in {None, model.package_name}
         THEN <<model>>
         ELSE find_in_subgraph_by_name(subgraph, target_name, target_package,
                                       nodetype, i + 1)

\* self._find_by_name(name, package, 'macros', [NodeType.Macro])
find_macro_by_name(self_macros, name, package) ==
    find_in_subgraph_by_name(self_macros, name, package, {NodeMacro}, 1)

\* variant of get_materialization_macro_result: the default name is tried
\* whenever the first lookup finds nothing
get_materialization_macro_result_always_fallback(self_macros, materialization_name, adapter_type) ==
    LET macro_name == get_materialization_macro_name(materialization_name,
                                                     adapter_type)
        macro == find_macro_by_name(self_macros, macro_name, None)
    IN  IF macro = <<>>
        THEN LET default_name ==
                     get_materialization_macro_name(materialization_name,
                                                    "default")
             IN  [value |-> find_macro_by_name(self_macros, default_name, None),
                  lookups |-> <<macro_name, default_name>>]
        ELSE [value |-> macro, lookups |-> <<macro_name>>]

\* the returned macro (<<>> for None) and the names looked up on the way
get_materialization_macro_result(self_macros, materialization_name, adapter_type) ==
    LET macro_name == get_materialization_macro_name(materialization_name,
                                                     adapter_type)
        macro == find_macro_by_name(self_macros, macro_name, None)
    IN  IF adapter_type \notin {"default", None} /\ macro = <<>>
        THEN LET default_name ==
                     get_materialization_macro_name(materialization_name,
                                                    "default")
             IN  [value |-> find_macro_by_name(self_macros, default_name, None),
                  lookups |-> <<macro_name, default_name>>]
        ELSE [value |-> macro, lookups |-> <<macro_name>>]

get_materialization_macro(materialization_name, adapter_type) ==
    LET r == get_materialization_macro_result(macros, materialization_name,
                                              adapter_type)
    IN  /\ op' = [name |-> "get_materialization_macro",
                  args |-> <<materialization_name, adapter_type>>]
        /\ ret' = [exc |-> NoExc, value |-> r.value]
        /\ lookups' = r.lookups
        /\ patches' = <<>>
        /\ logged' = <<>>
        /\ UNCHANGED <<nodes, macros, docs>>

----------------------------------------------------------------------------
(* The manifest's life: constructed empty, then add_nodes, patch_nodes and *)
(* serialize in any order.                                                 *)

Constructed ==
    /\ op = [name |-> "__init__", args |-> <<>>]
    /\ ret = ReturnedNone
    /\ patches = <<>>
    /\ logged = <<>>
    /\ lookups = <<>>

Init ==
    /\ nodes = <<>>
    /\ macros = <<>>
    /\ docs = <<>>
    /\ Constructed

Next ==
    \/ \E new_nodes \in NewNodesDicts : add_nodes(new_nodes)
    \/ \E pts \in PatchDicts : patch_nodes(pts)
    \/ serialize

Spec == Init /\ [][Next]_vars

(* Edge derivation over every constructed node dict.                       *)

InitEdges ==
    /\ nodes \in NodeDicts
    /\ macros = <<>>
    /\ docs = <<>>
    /\ Constructed

NextEdges == serialize

SpecEdges == InitEdges /\ [][NextEdges]_vars

(* Doc lookup over every constructed docs dict.                            *)

InitDocs ==
    /\ nodes = <<>>
    /\ macros = <<>>
    /\ docs \in DocDicts
    /\ Constructed

NextDocs == \E name \in DocNames, package \in DocPackages :
                find_docs_by_name(name, package)

SpecDocs == InitDocs /\ [][NextDocs]_vars

(* Materialization-macro lookup over every constructed macros dict.        *)

InitMacros ==
    /\ nodes = <<>>
    /\ macros \in MacroDicts
    /\ docs = <<>>
    /\ Constructed

NextMacros == \E m \in Materializations, a \in AdapterTypes :
                  get_materialization_macro(m, a)

SpecMacros == InitMacros /\ [][NextMacros]_vars

----------------------------------------------------------------------------
(* Properties.                                                             *)

\* the keys of the nodes of d that list k among their dependencies
Dependents(d, k) ==
    {d[i].key : i \in {j \in DOMAIN d : k \in Range(d[j].value.depends_on_nodes)}}

Serialized == op.name = "serialize"

\* C1: after serialize() on a manifest whose every dependency key is a node
\* key, child_map has exactly the node keys as its keys, child_map[k] holds
\* exactly the current dependents of k (none for a node nobody depends on, no
\* edge of an earlier node state), and parent_map[k] is node k's depends_on.
C1_SerializeDerivesCurrentEdges ==
    (Serialized /\ RefComplete(nodes)) =>
        /\ ret.exc = NoExc
        /\ Len(ret.value) = 1
        /\ DictKeys(ret.value[1].child_map) = DictKeys(nodes)
        /\ \A k \in DictKeys(nodes) :
              /\ DictHas(ret.value[1].parent_map, k)
              /\ DictGet(ret.value[1].parent_map, k)
                    = DictGet(nodes, k).depends_on_nodes
              /\ Range(DictGet(ret.value[1].child_map, k)) = Dependents(nodes, k)
              /\ Len(DictGet(ret.value[1].child_map, k))
                    = Cardinality(Dependents(nodes, k))

\* C1 witness: serialize() of three nodes, referentially complete, after
\* add_nodes and patch_nodes, one node with no dependents and one with some.
C1_Witness ==
    /\ Serialized
    /\ RefComplete(nodes)
    /\ Len(nodes) = 3
    /\ \E i \in DOMAIN nodes : nodes[i].value.description # ""
    /\ ret.exc = NoExc
    /\ \E k \in DictKeys(nodes) : DictGet(ret.value[1].child_map, k) = <<>>
    /\ \E k \in DictKeys(nodes) : DictGet(ret.value[1].child_map, k) # <<>>

\* the nodes A(deps=[]), B(deps=[A]), C(deps=[A,B]) of the edge scenario
ExampleNodes ==
    <<Entry("model.p.a", ParsedNode("model.p.a", <<>>)),
      Entry("model.q.a", ParsedNode("model.q.a", <<"model.p.a">>)),
      Entry("test.p.c", ParsedNode("test.p.c", <<"model.p.a", "model.q.a">>))>>

\* C2: for a referentially complete node set, whenever B depends on A, B is in
\* forward[A] and A is in backward[B]; forward[A] is the dependents of A in
\* node iteration order; the scenario A, B(A), C(A,B) gives
\* forward = {A:[B,C], B:[C], C:[]} and backward = {A:[], B:[A], C:[A,B]}.
C2_EdgeMirror ==
    (Serialized /\ RefComplete(nodes)) =>
        /\ ret.exc = NoExc
        /\ Len(ret.value) = 1
        /\ \A a, b \in DictKeys(nodes) :
              a \in Range(DictGet(nodes, b).depends_on_nodes) =>
                  /\ b \in Range(DictGet(ret.value[1].child_map, a))
                  /\ a \in Range(DictGet(ret.value[1].parent_map, b))
        /\ \A a \in DictKeys(nodes) :
              DictGet(ret.value[1].child_map, a)
                  = SelectSeq(DictKeySeq(nodes),
                              LAMBDA b : b \in Dependents(nodes, a))
        /\ nodes = ExampleNodes =>
              /\ DictGet(ret.value[1].child_map, "model.p.a")
                    = <<"model.q.a", "test.p.c">>
              /\ DictGet(ret.value[1].child_map, "model.q.a") = <<"test.p.c">>
              /\ DictGet(ret.value[1].child_map, "test.p.c") = <<>>
              /\ DictGet(ret.value[1].parent_map, "model.p.a") = <<>>
              /\ DictGet(ret.value[1].parent_map, "model.q.a") = <<"model.p.a">>
              /\ DictGet(ret.value[1].parent_map, "test.p.c")
                    = <<"model.p.a", "model.q.a">>

\* C2 witness: the edges of the scenario A, B(A), C(A,B) have been derived.
C2_Witness ==
    /\ Serialized
    /\ nodes = ExampleNodes
    /\ ret.exc = NoExc
    /\ DictGet(ret.value[1].child_map, "model.p.a") = <<"model.q.a", "test.p.c">>

\* C7 as claimed: serialize() of a node set with a dependency key that is no
\* node key fails and returns no edge maps, and add_nodes never leaves the
\* manifest holding such a dependency.
C7_Original ==
    /\ (Serialized /\ ~RefComplete(nodes)) =>
          (ret.exc.type # "None" /\ ret.value = <<>>)
    /\ op.name = "add_nodes" => RefComplete(nodes)

\* C7, amended: add_nodes does not look at dependency keys, so the manifest
\* can hold a dependency key that is no node key; serialize() of such a node
\* set raises KeyError for a listed key that is no node key and returns no
\* edge maps.
C7_DanglingFailsAtSerialize ==
    (Serialized /\ ~RefComplete(nodes)) =>
        /\ ret.exc.type = "KeyError"
        /\ ret.exc.args[1] \notin DictKeys(nodes)
        /\ \E i \in DOMAIN nodes :
              ret.exc.args[1] \in Range(nodes[i].value.depends_on_nodes)
        /\ ret.value = <<>>

\* C7 witness: serialize() failed on a manifest that add_nodes left with a
\* dependency key that is no node key.
C7_Witness ==
    /\ Serialized
    /\ ~RefComplete(nodes)
    /\ Len(nodes) >= 2
    /\ ret.exc.type = "KeyError"

\* the positions of the new_nodes dict nn whose key is already a key of d
Colliding(d, nn) == {i \in DOMAIN nn : DictHas(d, nn[i].key)}

Min(S) == CHOOSE x \in S : \A y \in S : x <= y

\* C3 as claimed: add_nodes with a key that is already in the node mapping
\* fails with a DuplicateResourceName error naming the incoming and the
\* existing node, and the node stored under that key stays; add_nodes with
\* only absent keys succeeds and inserts every one of them.
C3_DuplicateResourceName ==
    [][op'.name = "add_nodes" =>
        LET new_nodes == op'.args[1] IN
        IF Colliding(nodes, new_nodes) # {}
        THEN /\ ret'.exc.type = "DuplicateResourceName"
             /\ \E i \in Colliding(nodes, new_nodes) :
                   /\ ret'.exc.args = <<new_nodes[i].value,
                                        DictGet(nodes, new_nodes[i].key)>>
                   /\ DictGet(nodes', new_nodes[i].key)
                         = DictGet(nodes, new_nodes[i].key)
        ELSE /\ ret' = ReturnedNone
             /\ \A i \in DOMAIN new_nodes :
                   /\ DictHas(nodes', new_nodes[i].key)
                   /\ DictGet(nodes', new_nodes[i].key) = new_nodes[i].value
    ]_vars

\* C9: add_nodes stops at the first colliding key and is not atomic: the call
\* fails, the input nodes before the first colliding one are stored, in input
\* order, after the nodes that were there, no later input node is inserted,
\* and every node that was there is still stored under its key.
C9_StopsAtFirstCollision ==
    [][op'.name = "add_nodes" =>
        LET new_nodes == op'.args[1] IN
        Colliding(nodes, new_nodes) # {} =>
            LET first == Min(Colliding(nodes, new_nodes)) IN
            /\ ret'.exc.type # "None"
            /\ nodes' = nodes \o SubSeq(new_nodes, 1, first - 1)
            /\ \A i \in 1..(first - 1) :
                  DictGet(nodes', new_nodes[i].key) = new_nodes[i].value
            /\ \A i \in (first + 1)..Len(new_nodes) :
                  DictHas(nodes', new_nodes[i].key) =>
                      /\ DictHas(nodes, new_nodes[i].key)
                      /\ DictGet(nodes', new_nodes[i].key)
                            = DictGet(nodes, new_nodes[i].key)
            /\ \A k \in DictKeys(nodes) :
                  /\ DictHas(nodes', k)
                  /\ DictGet(nodes', k) = DictGet(nodes, k)
    ]_vars

\* C9 witness: a failed add_nodes of two nodes whose first node is now the
\* last stored node and whose second key holds another, earlier node.
C9_Witness ==
    /\ op.name = "add_nodes"
    /\ ret.exc.type # "None"
    /\ Len(op.args[1]) = 2
    /\ Len(nodes) >= 2
    /\ nodes[Len(nodes)] = op.args[1][1]
    /\ DictHas(nodes, op.args[1][2].key)
    /\ DictIndex(nodes, op.args[1][2].key) < Len(nodes)
    /\ DictGet(nodes, op.args[1][2].key) # op.args[1][2].value

\* the positions of the Model nodes of d that are named n
ModelsNamed(d, n) ==
    {i \in DOMAIN d : d[i].value.resource_type = NodeModel /\ d[i].value.name = n}

\* how often the name n was logged
Warnings(log, n) == Cardinality({j \in DOMAIN log : log[j] = n})

\* C4 as claimed: patch_nodes gives every Model node whose name is a key of
\* the patch mapping that patch and removes the entry, so the mapping ends
\* empty when every patch name is a Model node's name; a patch whose name is
\* no Model node's name stays in the mapping, is logged exactly once, changes
\* no node and does not make the call fail.
C4_Original ==
    [][op'.name = "patch_nodes" =>
        LET pts == op'.args[1] IN
        /\ ret' = ReturnedNone
        /\ Len(nodes') = Len(nodes)
        /\ \A n \in DictKeys(pts) :
              IF ModelsNamed(nodes, n) # {}
              THEN /\ \A i \in ModelsNamed(nodes, n) :
                         nodes'[i].value.description
                             = DictGet(pts, n).description
                   /\ ~DictHas(patches', n)
              ELSE /\ DictHas(patches', n)
                   /\ DictGet(patches', n) = DictGet(pts, n)
                   /\ Warnings(logged', n) = 1
        /\ (\A n \in DictKeys(pts) : ModelsNamed(nodes, n) # {}) =>
              patches' = <<>>
        /\ \A i \in DOMAIN nodes :
              nodes'[i] # nodes[i] =>
                  /\ nodes[i].value.resource_type = NodeModel
                  /\ DictHas(pts, nodes[i].value.name)
    ]_vars

\* C4, amended: patch_nodes gives the first Model node, in the node mapping's
\* order, whose name is a key of the patch mapping that patch and removes the
\* entry (later Model nodes of that name are left as they were), so the
\* mapping ends empty when every patch name is a Model node's name; a patch
\* whose name is no Model node's name stays in the mapping, is logged exactly
\* once, changes no node and does not make the call fail.
C4_FirstModelNodePatched ==
    [][op'.name = "patch_nodes" =>
        LET pts == op'.args[1] IN
        /\ ret' = ReturnedNone
        /\ Len(nodes') = Len(nodes)
        /\ \A n \in DictKeys(pts) :
              IF ModelsNamed(nodes, n) # {}
              THEN /\ nodes'[Min(ModelsNamed(nodes, n))].value.description
                         = DictGet(pts, n).description
                   /\ \A i \in ModelsNamed(nodes, n) \ {Min(ModelsNamed(nodes, n))} :
                         nodes'[i] = nodes[i]
                   /\ ~DictHas(patches', n)
              ELSE /\ DictHas(patches', n)
                   /\ DictGet(patches', n) = DictGet(pts, n)
                   /\ Warnings(logged', n) = 1
        /\ (\A n \in DictKeys(pts) : ModelsNamed(nodes, n) # {}) =>
              patches' = <<>>
        /\ \A i \in DOMAIN nodes :
              nodes'[i] # nodes[i] =>
                  /\ nodes[i].value.resource_type = NodeModel
                  /\ DictHas(pts, nodes[i].value.name)
    ]_vars

\* C4 witness: patch_nodes of two patches, "a" taken by a Model node and "c",
\* a name only a non-Model node has, left in the mapping and logged once.
C4_Witness ==
    /\ op.name = "patch_nodes"
    /\ DictKeys(op.args[1]) = {"a", "c"}
    /\ DictHas(nodes, "test.p.c")
    /\ DictKeys(patches) = {"c"}
    /\ logged = <<"c">>
    /\ \E i \in ModelsNamed(nodes, "a") :
          nodes[i].value.description = DictGet(op.args[1], "a").description

\* C10: patch_nodes matches by name alone and gives a patch to at most one
\* node: of the Model nodes, of whatever package, that have a patch's name,
\* the first in the node mapping's order takes the patch's metadata, the
\* others are left as they were and nothing is logged for that name; the
\* node keys, their order and every non-Model node are unchanged.
C10_OnePatchOneNode ==
    [][op'.name = "patch_nodes" =>
        LET pts == op'.args[1] IN
        /\ DictKeySeq(nodes') = DictKeySeq(nodes)
        /\ \A i \in DOMAIN nodes :
              nodes[i].value.resource_type # NodeModel => nodes'[i] = nodes[i]
        /\ \A n \in DictKeys(pts) :
              \A i \in ModelsNamed(nodes, n) :
                  /\ Warnings(logged', n) = 0
                  /\ IF \A j \in ModelsNamed(nodes, n) : i <= j
                     THEN nodes'[i].value
                              = [nodes[i].value EXCEPT
                                    !.description = DictGet(pts, n).description]
                     ELSE nodes'[i] = nodes[i]
    ]_vars

\* C10 witness: two Model nodes named "a" in packages p and q and a patch
\* for "a": the first has the patch's metadata, the second has not, nothing
\* was logged, and a non-Model node is stored too.
C10_Witness ==
    /\ op.name = "patch_nodes"
    /\ DictHas(op.args[1], "a")
    /\ Cardinality(ModelsNamed(nodes, "a")) = 2
    /\ DictHas(nodes, "test.p.c")
    /\ nodes[Min(ModelsNamed(nodes, "a"))].value.description
          = DictGet(op.args[1], "a").description
    /\ \E i \in ModelsNamed(nodes, "a") :
          /\ nodes[i].value.package_name
                # nodes[Min(ModelsNamed(nodes, "a"))].value.package_name
          /\ nodes[i].value.description # DictGet(op.args[1], "a").description
    /\ logged = <<>>

\* a doc key of exactly two '.'-separated segments: exactly one "."
TwoSegments(uid) == Cardinality({i \in DOMAIN uid : uid[i] = "."}) = 1

InvalidDocs(d) == {i \in DOMAIN d : ~TwoSegments(d[i].key)}

\* the key is package "." name for the requested name and, when a package is
\* requested, that package
DocMatches(uid, name, package) ==
    /\ TwoSegments(uid)
    /\ \E pkg \in {SubSeq(uid, 1, i) : i \in 0..Len(uid)} :
          /\ uid = pkg \o <<".">> \o name
          /\ package \in {NoneStr, pkg}

MatchingDocs(d, name, package) ==
    {i \in DOMAIN d : DocMatches(d[i].key, name, package)}

FoundDocs == op.name = "find_docs_by_name"

\* C5 as claimed: whenever the docs mapping holds a key that is not two
\* segments, find_docs_by_name fails with the invalid-name error naming such
\* a doc, whatever is asked for and wherever the key sits; it never returns a
\* doc or not-found.
C5_Original ==
    (FoundDocs /\ InvalidDocs(docs) # {}) =>
        /\ ret.exc.type = "CompilationException"
        /\ \E i \in InvalidDocs(docs) :
              ret.exc.args = <<InvalidDocMsg, docs[i].value>>

\* C5, amended: when the docs mapping holds a key that is not two segments,
\* find_docs_by_name fails with the invalid-name error naming the first such
\* doc unless a doc that matches the request comes before it in the
\* mapping's order, in which case the first matching doc is returned; it
\* never returns not-found.
C5_InvalidKeyReachedFails ==
    (FoundDocs /\ InvalidDocs(docs) # {}) =>
        LET bad == Min(InvalidDocs(docs))
            before == {i \in MatchingDocs(docs, op.args[1], op.args[2]) :
                          i < bad}
        IN  /\ ret # ReturnedNone
            /\ IF before = {}
               THEN ret = Raised(Raise("CompilationException",
                                       <<InvalidDocMsg, docs[bad].value>>))
               ELSE ret = Returned(docs[Min(before)].value)

\* C5 witness: the lookup failed on the three-segment key "p.o.x" stored
\* after a two-segment key that does not match the request.
C5_Witness ==
    /\ FoundDocs
    /\ Len(docs) >= 2
    /\ TwoSegments(docs[1].key)
    /\ docs[2].key = <<"p", ".", "o", ".", "x">>
    /\ ret.exc.type = "CompilationException"
    /\ ret.exc.args[2] = docs[2].value

\* C8: over docs whose keys all have two segments, find_docs_by_name returns
\* the first doc in insertion order whose key is package.name for the
\* requested name and (when given) package, and returns None, without error,
\* when there is none; with the single key "p.o", ("o","p") and ("o", None)
\* find it and ("o","q") does not.
C8_FirstMatchingDoc ==
    (FoundDocs /\ InvalidDocs(docs) = {}) =>
        LET found == MatchingDocs(docs, op.args[1], op.args[2]) IN
        /\ ret.exc = NoExc
        /\ IF found = {}
           THEN ret = ReturnedNone
           ELSE ret = Returned(docs[Min(found)].value)
        /\ DictKeySeq(docs) = <<<<"p", ".", "o">>>> =>
              /\ op.args \in {<<<<"o">>, <<"p">>>>, <<<<"o">>, NoneStr>>}
                    => ret = Returned(docs[1].value)
              /\ op.args = <<<<"o">>, <<"q">>>> => ret = ReturnedNone

\* C8 witness: "q.o" and "p.o" are both stored, "o" was asked for in package
\* "p", and the second doc was returned.
C8_Witness ==
    /\ FoundDocs
    /\ InvalidDocs(docs) = {}
    /\ Len(docs) >= 2
    /\ docs[1].key = <<"q", ".", "o">>
    /\ docs[2].key = <<"p", ".", "o">>
    /\ op.args = <<<<"o">>, <<"p">>>>
    /\ ret = Returned(docs[2].value)

\* the first Macro of d with the given name, as a tuple; <<>> when none
FirstMacroNamed(d, nm) ==
    LET I == {i \in DOMAIN d : /\ d[i].value.resource_type = NodeMacro
                               /\ d[i].value.name = nm}
    IN  IF I = {} THEN <<>> ELSE <<d[Min(I)].value>>

\* C6: get_materialization_macro returns the macro under the adapter's
\* canonical name when there is one; when there is none and the adapter is
\* neither unset nor 'default', the result of looking up the default
\* adapter's canonical name (possibly None); when the adapter is unset or
\* 'default', one lookup is made and its result returned; never more than
\* two lookups.
C6_MaterializationFallback ==
    op.name = "get_materialization_macro" =>
        LET m == op.args[1]
            a == op.args[2]
            own == FirstMacroNamed(macros, get_materialization_macro_name(m, a))
            dflt == FirstMacroNamed(macros,
                                    get_materialization_macro_name(m, "default"))
        IN  /\ ret.exc = NoExc
            /\ Len(lookups) \in {1, 2}
            /\ lookups[1] = get_materialization_macro_name(m, a)
            /\ own # <<>> => (ret.value = own /\ Len(lookups) = 1)
            /\ (own = <<>> /\ a \notin {None, "default"}) =>
                  /\ ret.value = dflt
                  /\ lookups = <<get_materialization_macro_name(m, a),
                                 get_materialization_macro_name(m, "default")>>
            /\ a \in {None, "default"} =>
                  (ret.value = own /\ Len(lookups) = 1)

\* C6 witness: ("table", "snowflake") with no snowflake Macro stored (only an
\* operation of that name) fell back to the default-adapter macro.
C6_Witness ==
    /\ op = [name |-> "get_materialization_macro",
             args |-> <<"table", "snowflake">>]
    /\ \E i \in DOMAIN macros :
          /\ macros[i].value.resource_type = NodeOperation
          /\ macros[i].value.name = <<"materialization", "table", "snowflake">>
    /\ Len(lookups) = 2
    /\ Len(ret.value) = 1
    /\ ret.value[1].name = <<"materialization", "table", "default">>

====
